---- MODULE Spec2Model ----
(***************************************************************************)
(* A model of pdpbox/info_plots.py: the two entry operations target_plot   *)
(* and actual_plot, each unfolded into the steps of its body.              *)
(*                                                                         *)
(* A DataFrame is a function from its column names to its columns, a       *)
(* column is a sequence of integers (one per row).  Python's None is the   *)
(* empty option <<>>, a present value v is <<v>>.  A raised ValueError is  *)
(* recorded by the kind of its message: InvalidFeature (lines 127, 134,    *)
(* 136, 139), InvalidRange (144, 146), InvalidTarget (151, 158, 160, 163,  *)
(* 166), InvalidClassSelector (33).                                        *)
(***************************************************************************)
EXTENDS Integers, Sequences, FiniteSets, TLC

VARIABLES
    df,                 \* the caller's DataFrame
    op,                 \* the entry operation being executed
    pc,                 \* the position in its body
    trace,              \* the steps of the current call executed so far
    error,              \* the exception the current call raised, or "none"
    result,             \* the value the current call returned
    \* target_plot: arguments
    feature, target, percentile_range,
    \* target_plot: locals
    feature_type, target_type, useful_features,
    data_ref,           \* the frame object that data / data_x names
    data,               \* the contents of the working frame
    bar_data, target_lines,
    axes,               \* the Axes the renderer returned
    \* actual_plot: arguments
    pdp_isolate_out, multi_flag, which_class, ncols,
    \* actual_plot: locals and drawing effects
    compared,           \* whether which_class was compared at line 32
    pdp_selected,       \* _pdp_isolate_out of line 62 / 64
    figures,            \* number of plt.figure calls
    titles,             \* the _actual_plot_title calls
    outer,              \* the GridSpec of the small-multiple layout
    n_class,            \* the loop variable of line 56
    panels              \* the _actual_plot calls

vars == <<df, op, pc, trace, error, result, feature, target, percentile_range,
          feature_type, target_type, useful_features, data_ref, data, bar_data,
          target_lines, axes, pdp_isolate_out, multi_flag, which_class, ncols,
          compared, pdp_selected, figures, titles, outer, n_class, panels>>

----------------------------------------------------------------------------
(* Bounds of the model *)

MaxList == 2        \* longest feature / target list
MaxBins == 3        \* bin ids are 0 .. MaxBins-1
MaxClasses == 3     \* most classes of a class->result mapping
MaxNcols == 3       \* largest ncols argument

Names == {"a", "b", "c"}
DfColumnSets == {{"a", "b"}, {"a", "b", "c"}}
ColumnValues == {<<1, 0>>, <<1, 1>>, <<0, 2>>}
Datasets == UNION {[cs -> ColumnValues] : cs \in DfColumnSets}

None == <<>>
Some(v) == <<v>>

SeqsUpTo(S, n) == UNION {[1..k -> S] : k \in 0..n}

\* a feature or target argument: a string, a list of strings, or neither
ColumnSpecs ==
    {[kind |-> "str", names |-> <<c>>] : c \in Names}
    \cup {[kind |-> "list", names |-> l] : l \in SeqsUpTo(Names, MaxList)}
    \cup {[kind |-> "other", names |-> <<>>]}

PercentileRanges ==
    {None, Some(<<10, 90>>), Some(<<-5, 90>>), Some(<<10, 105>>), Some(<<1, 2, 3>>)}

\* 'class_%d' % k
ClassKey(k) == "class_" \o ToString(k)

\* a pdp_isolate_out argument: one result, or a mapping class_0 .. class_(n-1) -> result
SingleResult == [is_dict |-> FALSE, value |-> "pdp_isolate_obj"]
ClassMapping(n) ==
    [is_dict |-> TRUE,
     value |-> [key \in {ClassKey(k) : k \in 0..(n - 1)} |-> "pdp_isolate_obj of " \o key]]
PdpInputs == {SingleResult} \cup {ClassMapping(n) : n \in 1..MaxClasses}

WhichClassArgs == {None} \cup {Some(k) : k \in (-1)..MaxClasses}
NcolsArgs == {None} \cup {Some(k) : k \in 0..MaxNcols}

\* the feature_name argument of actual_plot
FeatureName == "f"

----------------------------------------------------------------------------
(* Library functions the code calls *)

Range(s) == {s[i] : i \in DOMAIN s}

SetMin(S) == CHOOSE x \in S : \A y \in S : x <= y
SetMax(S) == CHOOSE x \in S : \A y \in S : y <= x

RECURSIVE SetToSortedSeq(_)
SetToSortedSeq(S) ==
    IF S = {} THEN <<>>
    ELSE <<SetMin(S)>> \o SetToSortedSeq(S \ {SetMin(S)})

\* np.unique: the sorted distinct values of a column
np_unique(col) == SetToSortedSeq(Range(col))

RemoveAt(s, i) == [j \in 1..(Len(s) - 1) |-> IF j < i THEN s[j] ELSE s[j + 1]]

\* sorted(list(...)): ascending, duplicates kept
RECURSIVE sorted(_)
sorted(s) ==
    IF s = <<>> THEN <<>>
    ELSE LET m == SetMin(Range(s))
             i == SetMin({j \in DOMAIN s : s[j] = m})
         IN  <<m>> \o sorted(RemoveAt(s, i))

\* set(a) < set(b): proper subset
ProperSubset(A, B) == A \subseteq B /\ A # B

----------------------------------------------------------------------------
(* target_plot: validation (lines 124-166) *)

\* variant: every value is 0 or 1
IsZeroOne_Subset(col) == Range(col) \subseteq {0, 1}

\* lines 128, 152, 162: sorted(list(np.unique(column))) == [0, 1]
IsZeroOne(col) == sorted(np_unique(col)) = <<0, 1>>

\* lines 125-139: the feature type, or "raise" where the code raises ValueError
CheckFeature(f, frame) ==
    IF f.kind = "str" THEN
        IF f.names[1] \notin DOMAIN frame THEN "raise"
        ELSE IF IsZeroOne(frame[f.names[1]]) THEN "binary"
        ELSE "numeric"
    ELSE IF f.kind = "list" THEN
        IF Len(f.names) < 2 THEN "raise"
        ELSE IF ~ProperSubset(Range(f.names), DOMAIN frame) THEN "raise"
        ELSE "onehot"
    ELSE "raise"

\* lines 142-146: TRUE where the code raises ValueError
CheckPercentileRange(pr) ==
    IF pr # None THEN
        IF Len(pr[1]) # 2 THEN TRUE
        ELSE SetMax(Range(pr[1])) > 100 \/ SetMin(Range(pr[1])) < 0
    ELSE FALSE

\* variant: only the first listed column is examined
CheckTarget_FirstOnly(t, frame) ==
    IF t.kind = "str" THEN
        IF t.names[1] \notin DOMAIN frame THEN "raise"
        ELSE IF IsZeroOne(frame[t.names[1]]) THEN "binary"
        ELSE "regression"
    ELSE IF t.kind = "list" THEN
        IF Len(t.names) < 2 THEN "raise"
        ELSE IF ~ProperSubset(Range(t.names), DOMAIN frame) THEN "raise"
        ELSE IF ~IsZeroOne(frame[t.names[1]]) THEN "raise"
        ELSE "multi-class"
    ELSE "raise"

\* lines 149-166: the target type, or "raise" where the code raises ValueError
CheckTarget(t, frame) ==
    IF t.kind = "str" THEN
        IF t.names[1] \notin DOMAIN frame THEN "raise"
        ELSE IF IsZeroOne(frame[t.names[1]]) THEN "binary"
        ELSE "regression"
    ELSE IF t.kind = "list" THEN
        IF Len(t.names) < 2 THEN "raise"
        ELSE IF ~ProperSubset(Range(t.names), DOMAIN frame) THEN "raise"
        ELSE IF \E target_idx \in 1..Len(t.names) : ~IsZeroOne(frame[t.names[target_idx]])
             THEN "raise"
        ELSE "multi-class"
    ELSE "raise"

\* variant: the target is validated only where it is first used
NextStep_TargetLate(s) ==
    CASE s = "check_feature" -> "check_percentile_range"
      [] s = "check_percentile_range" -> "assemble"
      [] s = "assemble" -> "grid_builder"
      [] s = "grid_builder" -> "check_target"
      [] s = "check_target" -> "aggregator"
      [] s = "aggregator" -> "renderer"
      [] s = "renderer" -> "return"
      [] s = "return" -> "done"

\* variant: the target is validated before percentile_range
NextStep_TargetFirst(s) ==
    CASE s = "check_feature" -> "check_target"
      [] s = "check_target" -> "check_percentile_range"
      [] s = "check_percentile_range" -> "assemble"
      [] s = "assemble" -> "grid_builder"
      [] s = "grid_builder" -> "aggregator"
      [] s = "aggregator" -> "renderer"
      [] s = "renderer" -> "return"
      [] s = "return" -> "done"

\* the order of the statements of target_plot's body (lines 124-203)
NextStep(s) ==
    CASE s = "check_feature" -> "check_percentile_range"
      [] s = "check_percentile_range" -> "check_target"
      [] s = "check_target" -> "assemble"
      [] s = "assemble" -> "grid_builder"
      [] s = "grid_builder" -> "aggregator"
      [] s = "aggregator" -> "renderer"
      [] s = "renderer" -> "return"
      [] s = "return" -> "done"

FirstStep == "check_feature"

----------------------------------------------------------------------------
(* target_plot: working frame, grid, aggregation (lines 168-198) *)

\* lines 169-177
UsefulFeatures(f, t) == f.names \o t.names

\* variant: data is the caller's frame itself
WorkingFrameRef_Alias == "df"

\* line 180: .copy() yields a frame object of its own
WorkingFrameRef == "data"

\* df[useful_features]
SelectColumns(frame, cols) == [c \in Range(cols) |-> frame[c]]

\* frame[name] = col
SetColumn(frame, name, col) ==
    [c \in DOMAIN frame \cup {name} |-> IF c = name THEN col ELSE frame[c]]

NumRows(frame) == Len(frame[CHOOSE c \in DOMAIN frame : TRUE])

\* the keys of groupby('x'): the distinct values of x, sorted
GroupKeys(frame) == np_unique(frame["x"])

GroupRows(frame, k) == {r \in 1..NumRows(frame) : frame["x"][r] = k}

RECURSIVE SumOver(_, _)
SumOver(col, rows) ==
    IF rows = {} THEN 0
    ELSE LET r == CHOOSE r \in rows : TRUE IN col[r] + SumOver(col, rows \ {r})

\* sort_values('x', ascending=True): stable insertion into ascending order of x
RECURSIVE SortValues(_)
SortValues(rows) ==
    IF rows = <<>> THEN <<>>
    ELSE LET m == SetMin({rows[j].x : j \in DOMAIN rows})
             i == SetMin({j \in DOMAIN rows : rows[j].x = m})
         IN  <<rows[i]>> \o SortValues(RemoveAt(rows, i))

\* line 187: groupby('x', as_index=False).agg({'fake_count': 'count'}).sort_values('x')
BarData(frame) ==
    LET keys == GroupKeys(frame) IN
    SortValues([i \in 1..Len(keys) |->
        [x |-> keys[i], count |-> Cardinality(GroupRows(frame, keys[i]))]])

\* lines 192, 196: groupby('x', as_index=False).agg({col: 'mean'}).sort_values('x');
\* a mean is the pair <<sum, number of rows>>
TargetLine(frame, col) ==
    LET keys == GroupKeys(frame) IN
    SortValues([i \in 1..Len(keys) |->
        [x |-> keys[i],
         mean |-> <<SumOver(frame[col], GroupRows(frame, keys[i])),
                    Cardinality(GroupRows(frame, keys[i]))>>]])

\* variant: the loop over the listed target columns is missing
TargetLines_Single(frame, t, ttype) == <<TargetLine(frame, t.names[1])>>

\* lines 190-198
TargetLines(frame, t, ttype) ==
    IF ttype \in {"binary", "regression"} THEN <<TargetLine(frame, t.names[1])>>
    ELSE [target_idx \in 1..Len(t.names) |-> TargetLine(frame, t.names[target_idx])]

\* variant: the function ends without returning the Axes
ReturnValue_Nothing(a) == None

\* line 203
ReturnValue(a) == a

----------------------------------------------------------------------------
(* State *)

NoFrame == <<>>

TargetLocalsInit ==
    /\ feature_type = "unset" /\ target_type = "unset"
    /\ useful_features = <<>> /\ data_ref = "unset" /\ data = NoFrame
    /\ bar_data = <<>> /\ target_lines = <<>> /\ axes = None

ActualLocalsInit ==
    /\ compared = FALSE /\ pdp_selected = None /\ figures = 0 /\ titles = <<>>
    /\ outer = None /\ n_class = 0 /\ panels = <<>>

NoTargetArgs == [kind |-> "other", names |-> <<>>]
NoActualArgs == [is_dict |-> FALSE, value |-> "none"]

Init ==
    /\ df \in Datasets
    /\ op = "none" /\ pc = "idle" /\ trace = <<>> /\ error = "none" /\ result = None
    /\ feature = NoTargetArgs /\ target = NoTargetArgs /\ percentile_range = None
    /\ TargetLocalsInit
    /\ pdp_isolate_out = NoActualArgs /\ multi_flag = FALSE
    /\ which_class = None /\ ncols = None
    /\ ActualLocalsInit

targetArgs == <<feature, target, percentile_range>>
targetLocals == <<feature_type, target_type, useful_features, data_ref, data,
                  bar_data, target_lines, axes>>
actualArgs == <<pdp_isolate_out, multi_flag, which_class, ncols>>
actualLocals == <<compared, pdp_selected, figures, titles, outer, n_class, panels>>

\* the locals of a call that has just begun
FreshTargetLocals ==
    /\ feature_type' = "unset" /\ target_type' = "unset"
    /\ useful_features' = <<>> /\ data_ref' = "unset" /\ data' = NoFrame
    /\ bar_data' = <<>> /\ target_lines' = <<>> /\ axes' = None

FreshActualLocals ==
    /\ compared' = FALSE /\ pdp_selected' = None /\ figures' = 0 /\ titles' = <<>>
    /\ outer' = None /\ n_class' = 0 /\ panels' = <<>>

Idle == pc = "idle"

\* an exception leaves the call
Raise(e) == error' = e /\ pc' = "failed"

At(o, s) == op = o /\ pc = s

----------------------------------------------------------------------------
(* target_plot (lines 73-203) *)

\* the caller invokes target_plot; every local starts fresh
TargetPlotCall ==
    /\ Idle
    /\ \E f \in ColumnSpecs, t \in ColumnSpecs, pr \in PercentileRanges :
        /\ feature' = f /\ target' = t /\ percentile_range' = pr
    /\ op' = "target_plot" /\ pc' = FirstStep
    /\ trace' = <<>> /\ error' = "none" /\ result' = None
    /\ FreshTargetLocals /\ FreshActualLocals
    /\ pdp_isolate_out' = NoActualArgs /\ multi_flag' = FALSE
    /\ which_class' = None /\ ncols' = None
    /\ UNCHANGED df

\* the call is over: the caller has its result or its exception, and the
\* arguments and locals of the call are gone
CallEnds ==
    /\ pc \in {"done", "failed"}
    /\ op' = "none" /\ pc' = "idle"
    /\ trace' = <<>> /\ error' = "none" /\ result' = None
    /\ feature' = NoTargetArgs /\ target' = NoTargetArgs /\ percentile_range' = None
    /\ FreshTargetLocals /\ FreshActualLocals
    /\ pdp_isolate_out' = NoActualArgs /\ multi_flag' = FALSE
    /\ which_class' = None /\ ncols' = None
    /\ UNCHANGED df

\* lines 124-139
TP_CheckFeature ==
    /\ At("target_plot", "check_feature")
    /\ trace' = Append(trace, pc)
    /\ IF CheckFeature(feature, df) = "raise"
       THEN Raise("InvalidFeature") /\ UNCHANGED feature_type
       ELSE /\ feature_type' = CheckFeature(feature, df)
            /\ pc' = NextStep(pc) /\ UNCHANGED error
    /\ UNCHANGED <<df, op, result, targetArgs, target_type, useful_features,
                   data_ref, data, bar_data, target_lines, axes, actualArgs, actualLocals>>

\* lines 141-146
TP_CheckPercentileRange ==
    /\ At("target_plot", "check_percentile_range")
    /\ trace' = Append(trace, pc)
    /\ IF CheckPercentileRange(percentile_range)
       THEN Raise("InvalidRange")
       ELSE pc' = NextStep(pc) /\ UNCHANGED error
    /\ UNCHANGED <<df, op, result, targetArgs, targetLocals, actualArgs, actualLocals>>

\* lines 148-166
TP_CheckTarget ==
    /\ At("target_plot", "check_target")
    /\ trace' = Append(trace, pc)
    /\ IF CheckTarget(target, df) = "raise"
       THEN Raise("InvalidTarget") /\ UNCHANGED target_type
       ELSE /\ target_type' = CheckTarget(target, df)
            /\ pc' = NextStep(pc) /\ UNCHANGED error
    /\ UNCHANGED <<df, op, result, targetArgs, feature_type, useful_features,
                   data_ref, data, bar_data, target_lines, axes, actualArgs, actualLocals>>

\* the frame an object reference names
FrameOf(ref) == IF ref = "df" THEN df ELSE data

\* an in-place write to the frame an object reference names
WriteFrame(ref, frame) ==
    IF ref = "df" THEN df' = frame /\ UNCHANGED data
    ELSE data' = frame /\ UNCHANGED df

\* lines 168-180: useful_features, data = df[useful_features].copy();
\* selecting a column df does not have raises KeyError
TP_Assemble ==
    /\ At("target_plot", "assemble")
    /\ trace' = Append(trace, pc)
    /\ useful_features' = UsefulFeatures(feature, target)
    /\ IF ~(Range(useful_features') \subseteq DOMAIN df)
       THEN Raise("KeyError") /\ UNCHANGED <<data_ref, data>>
       ELSE /\ data_ref' = WorkingFrameRef
            /\ IF data_ref' = "df" THEN UNCHANGED data
               ELSE data' = SelectColumns(df, useful_features')
            /\ pc' = NextStep(pc) /\ UNCHANGED error
    /\ UNCHANGED <<df, op, result, targetArgs, feature_type, target_type,
                   bar_data, target_lines, axes, actualArgs, actualLocals>>

\* lines 181-184: _prepare_data_x assigns every row a bin id x
TP_GridBuilder ==
    /\ At("target_plot", "grid_builder")
    /\ trace' = Append(trace, pc)
    /\ \E xs \in [1..NumRows(FrameOf(data_ref)) -> 0..(MaxBins - 1)] :
        WriteFrame(data_ref, SetColumn(FrameOf(data_ref), "x", xs))
    /\ pc' = NextStep(pc)
    /\ UNCHANGED <<op, error, result, targetArgs, feature_type, target_type,
                   useful_features, data_ref, bar_data, target_lines, axes,
                   actualArgs, actualLocals>>

\* lines 186-198: fake_count, bar_data, target_lines
TP_Aggregator ==
    /\ At("target_plot", "aggregator")
    /\ trace' = Append(trace, pc)
    /\ LET n == NumRows(FrameOf(data_ref))
           data_x == SetColumn(FrameOf(data_ref), "fake_count", [r \in 1..n |-> 1])
       IN  /\ WriteFrame(data_ref, data_x)
           /\ bar_data' = BarData(data_x)
           /\ target_lines' = TargetLines(data_x, target, target_type)
    /\ pc' = NextStep(pc)
    /\ UNCHANGED <<op, error, result, targetArgs, feature_type, target_type,
                   useful_features, data_ref, axes, actualArgs, actualLocals>>

\* lines 200-202: _target_plot draws what it is passed and returns the Axes
TP_Renderer ==
    /\ At("target_plot", "renderer")
    /\ trace' = Append(trace, pc)
    /\ axes' = Some([bar_data |-> bar_data, target_lines |-> target_lines])
    /\ pc' = NextStep(pc)
    /\ UNCHANGED <<df, op, error, result, targetArgs, feature_type, target_type,
                   useful_features, data_ref, data, bar_data, target_lines,
                   actualArgs, actualLocals>>

\* line 203
TP_Return ==
    /\ At("target_plot", "return")
    /\ trace' = Append(trace, pc)
    /\ result' = ReturnValue(axes)
    /\ pc' = NextStep(pc)
    /\ UNCHANGED <<df, op, error, targetArgs, targetLocals, actualArgs, actualLocals>>

----------------------------------------------------------------------------
(* actual_plot (lines 10-70) *)

\* variant: > for >=
WhichClassOutOfRange_Strict(wc, keys) == wc > Cardinality(keys)

\* line 32: which_class >= len(pdp_isolate_out.keys())
WhichClassOutOfRange(wc, keys) == wc >= Cardinality(keys)

\* line 50
DefaultNcols == 2

\* variant: integer division plus one
NRows_PlusOne(n, nc) == (n \div nc) + 1

\* line 51: int(np.ceil(float(n_classes) / ncols)), for ncols > 0
NRows(n, nc) == (n + nc - 1) \div nc

\* line 44
SmallMultiples == pdp_isolate_out.is_dict /\ ~multi_flag

ActualPlotCall ==
    /\ Idle
    /\ \E p \in PdpInputs, mf \in BOOLEAN, wc \in WhichClassArgs, nc \in NcolsArgs :
        /\ pdp_isolate_out' = p /\ multi_flag' = mf
        /\ which_class' = wc /\ ncols' = nc
    /\ op' = "actual_plot" /\ pc' = "check_which_class"
    /\ trace' = <<>> /\ error' = "none" /\ result' = None
    /\ feature' = NoTargetArgs /\ target' = NoTargetArgs /\ percentile_range' = None
    /\ FreshTargetLocals /\ FreshActualLocals
    /\ UNCHANGED df

\* lines 31-33.  With multi_flag set: a pdp_isolate_out that is no mapping has
\* no keys(); which_class = None against an integer raises TypeError under
\* Python 3 and compares as smaller under Python 2.
AP_CheckWhichClass ==
    /\ At("actual_plot", "check_which_class")
    /\ trace' = Append(trace, pc)
    /\ IF ~multi_flag
       THEN pc' = "figure" /\ UNCHANGED <<error, compared>>
       ELSE IF ~pdp_isolate_out.is_dict
       THEN Raise("AttributeError") /\ UNCHANGED compared
       ELSE /\ compared' = TRUE
            /\ IF which_class = None
               THEN \/ Raise("TypeError")
                    \/ pc' = "figure" /\ UNCHANGED error
               ELSE IF WhichClassOutOfRange(which_class[1], DOMAIN pdp_isolate_out.value)
               THEN Raise("InvalidClassSelector")
               ELSE pc' = "figure" /\ UNCHANGED error
    /\ UNCHANGED <<df, op, result, targetArgs, targetLocals, actualArgs,
                   pdp_selected, figures, titles, outer, n_class, panels>>

\* lines 35-44: the title figure, then the branch
AP_Figure ==
    /\ At("actual_plot", "figure")
    /\ trace' = Append(trace, pc)
    /\ figures' = figures + 1
    /\ pc' = IF SmallMultiples THEN "title_multi" ELSE "select"
    /\ UNCHANGED <<df, op, error, result, targetArgs, targetLocals, actualArgs,
                   compared, pdp_selected, titles, outer, n_class, panels>>

TitleCall == [feature_name |-> FeatureName, multi_flag |-> multi_flag,
              which_class |-> which_class]

\* lines 45-47
AP_TitleMulti ==
    /\ At("actual_plot", "title_multi")
    /\ trace' = Append(trace, pc)
    /\ titles' = Append(titles, TitleCall)
    /\ pc' = "grid"
    /\ UNCHANGED <<df, op, error, result, targetArgs, targetLocals, actualArgs,
                   compared, pdp_selected, figures, outer, n_class, panels>>

\* lines 49-54: ncols, nrows, the panel figure and its GridSpec
AP_Grid ==
    /\ At("actual_plot", "grid")
    /\ trace' = Append(trace, pc)
    /\ LET nc == IF ncols = None THEN DefaultNcols ELSE ncols[1]
           n_classes == Cardinality(DOMAIN pdp_isolate_out.value)
       IN  IF nc = 0
           THEN Raise("ZeroDivisionError") /\ UNCHANGED <<figures, outer, n_class>>
           ELSE /\ figures' = figures + 1
                /\ outer' = Some([nrows |-> NRows(n_classes, nc), ncols |-> nc])
                /\ n_class' = 0
                /\ pc' = "panels" /\ UNCHANGED error
    /\ UNCHANGED <<df, op, result, targetArgs, targetLocals, actualArgs,
                   compared, pdp_selected, titles, panels>>

\* lines 56-59: one iteration of the loop
AP_Panel ==
    /\ At("actual_plot", "panels")
    /\ n_class < Cardinality(DOMAIN pdp_isolate_out.value)
    /\ trace' = Append(trace, "panel")
    /\ IF ClassKey(n_class) \notin DOMAIN pdp_isolate_out.value
       THEN Raise("KeyError") /\ UNCHANGED <<panels, n_class>>
       ELSE IF n_class >= outer[1].nrows * outer[1].ncols
       THEN Raise("IndexError") /\ UNCHANGED <<panels, n_class>>
       ELSE /\ panels' = Append(panels,
                    [pdp_isolate_out |-> pdp_isolate_out.value[ClassKey(n_class)],
                     feature_name |-> FeatureName \o " " \o ClassKey(n_class),
                     outer |-> Some(n_class)])
            /\ n_class' = n_class + 1
            /\ UNCHANGED <<pc, error>>
    /\ UNCHANGED <<df, op, result, targetArgs, targetLocals, actualArgs,
                   compared, pdp_selected, figures, titles, outer>>

\* the loop of line 56 is exhausted; the function ends without a return statement
AP_EndMulti ==
    /\ At("actual_plot", "panels")
    /\ n_class >= Cardinality(DOMAIN pdp_isolate_out.value)
    /\ trace' = Append(trace, "end")
    /\ result' = None
    /\ pc' = "done"
    /\ UNCHANGED <<df, op, error, targetArgs, targetLocals, actualArgs, actualLocals>>

\* lines 61-64
AP_Select ==
    /\ At("actual_plot", "select")
    /\ trace' = Append(trace, pc)
    /\ IF multi_flag
       THEN IF which_class = None
            THEN Raise("TypeError") /\ UNCHANGED pdp_selected
            ELSE IF ClassKey(which_class[1]) \notin DOMAIN pdp_isolate_out.value
            THEN Raise("KeyError") /\ UNCHANGED pdp_selected
            ELSE /\ pdp_selected' = Some(pdp_isolate_out.value[ClassKey(which_class[1])])
                 /\ pc' = "title" /\ UNCHANGED error
       ELSE /\ pdp_selected' = Some(pdp_isolate_out.value)
            /\ pc' = "title" /\ UNCHANGED error
    /\ UNCHANGED <<df, op, result, targetArgs, targetLocals, actualArgs,
                   compared, figures, titles, outer, n_class, panels>>

\* lines 66-67
AP_Title ==
    /\ At("actual_plot", "title")
    /\ trace' = Append(trace, pc)
    /\ titles' = Append(titles, TitleCall)
    /\ pc' = "panel_single"
    /\ UNCHANGED <<df, op, error, result, targetArgs, targetLocals, actualArgs,
                   compared, pdp_selected, figures, outer, n_class, panels>>

\* lines 69-70; the function ends without a return statement
AP_PanelSingle ==
    /\ At("actual_plot", "panel_single")
    /\ trace' = Append(trace, "panel")
    /\ panels' = Append(panels,
            [pdp_isolate_out |-> pdp_selected[1],
             feature_name |-> FeatureName,
             outer |-> None])
    /\ result' = None
    /\ pc' = "done"
    /\ UNCHANGED <<df, op, error, targetArgs, targetLocals, actualArgs,
                   compared, pdp_selected, figures, titles, outer, n_class>>

Next ==
    \/ TargetPlotCall
    \/ TP_CheckFeature
    \/ TP_CheckPercentileRange
    \/ TP_CheckTarget
    \/ TP_Assemble
    \/ TP_GridBuilder
    \/ TP_Aggregator
    \/ TP_Renderer
    \/ TP_Return
    \/ ActualPlotCall
    \/ AP_CheckWhichClass
    \/ AP_Figure
    \/ AP_TitleMulti
    \/ AP_Grid
    \/ AP_Panel
    \/ AP_EndMulti
    \/ AP_Select
    \/ AP_Title
    \/ AP_PanelSingle
    \/ CallEnds

Spec == Init /\ [][Next]_vars

----------------------------------------------------------------------------
(* Properties *)

IsPrefix(s, t) == Len(s) <= Len(t) /\ \A i \in 1..Len(s) : s[i] = t[i]

ValidationErrors == {"InvalidFeature", "InvalidRange", "InvalidTarget"}
ValidationSteps == {"check_feature", "check_percentile_range", "check_target"}
Collaborators == {"grid_builder", "aggregator", "renderer"}

InTargetPlot == op = "target_plot"
InActualPlot == op = "actual_plot"
Ran(step) == step \in Range(trace)

FeatureRejected == CheckFeature(feature, df) = "raise"
RangeRejected == CheckPercentileRange(percentile_range)
TargetRejected == CheckTarget(target, df) = "raise"

\* C1: in a target_plot call in which one of the three validations fails, no
\* collaborator (Grid Builder, Aggregator, Renderer) is ever invoked, nothing
\* of their output exists, and the call can only end in a validation error.
C1_FailFast ==
    (InTargetPlot /\ (FeatureRejected \/ RangeRejected \/ TargetRejected)) =>
        /\ Range(trace) \cap Collaborators = {}
        /\ data_ref = "unset" /\ bar_data = <<>> /\ target_lines = <<>> /\ axes = None
        /\ pc \in ValidationSteps \cup {"failed"}
        /\ pc = "failed" => error \in ValidationErrors

C1_Witness ==
    /\ InTargetPlot /\ pc = "failed" /\ error = "InvalidTarget"
    /\ ~FeatureRejected /\ ~RangeRejected /\ TargetRejected

CodeOrder ==
    <<"check_feature", "check_percentile_range", "check_target", "assemble",
      "grid_builder", "aggregator", "renderer", "return">>

ClaimedOrder ==
    <<"check_feature", "check_target", "check_percentile_range", "assemble",
      "grid_builder", "aggregator", "renderer", "return">>

\* C2 (as amended): target_plot executes its steps in the fixed order validate
\* feature, validate percentile_range, validate target, assemble the working
\* column subset, Grid Builder, Aggregator, Renderer, return; a call with a
\* valid feature, an invalid target and an invalid percentile_range fails with
\* InvalidRange.
C2_CodeOrder ==
    InTargetPlot =>
        /\ IsPrefix(trace, CodeOrder)
        /\ pc = "done" => trace = CodeOrder
        /\ (pc = "failed" /\ ~FeatureRejected /\ TargetRejected /\ RangeRejected)
              => error = "InvalidRange"

C2_Witness ==
    /\ InTargetPlot /\ pc = "failed" /\ error = "InvalidRange"
    /\ ~FeatureRejected /\ TargetRejected /\ RangeRejected

\* C2 (as claimed): the order has target validation before percentile_range
\* validation, and such a call fails with InvalidTarget.
C2_ClaimedOrder ==
    InTargetPlot =>
        /\ IsPrefix(trace, ClaimedOrder)
        /\ (pc = "failed" /\ ~FeatureRejected /\ TargetRejected /\ RangeRejected)
              => error = "InvalidTarget"

StringFeatureChecked ==
    /\ InTargetPlot /\ Ran("check_feature")
    /\ feature.kind = "str" /\ feature.names[1] \in DOMAIN df

\* C3 (as amended): for a string feature naming an existing column, the
\* inferred type is 'binary' exactly when the column's set of distinct values
\* is {0,1}, and 'numeric' for every other value set, {0} and {1} included.
C3_BinaryIffZeroOne ==
    StringFeatureChecked =>
        feature_type = IF Range(df[feature.names[1]]) = {0, 1} THEN "binary" ELSE "numeric"

C3_Witness ==
    /\ StringFeatureChecked
    /\ Range(df[feature.names[1]]) = {1} /\ feature_type = "numeric"

\* C3 (as claimed): the type is 'binary' whenever the value set is a non-empty
\* subset of {0,1}.
C3_BinaryIfSubset ==
    StringFeatureChecked =>
        feature_type = IF /\ Range(df[feature.names[1]]) # {}
                          /\ Range(df[feature.names[1]]) \subseteq {0, 1}
                       THEN "binary" ELSE "numeric"

\* C4 (as claimed): a list feature passes feature validation with type 'onehot'
\* exactly when it has at least 2 elements and every listed name is a column
\* of the dataset; every other list feature fails with InvalidFeature.
C4_ListFeature ==
    (InTargetPlot /\ Ran("check_feature") /\ feature.kind = "list") =>
        IF Len(feature.names) >= 2 /\ Range(feature.names) \subseteq DOMAIN df
        THEN feature_type = "onehot" /\ error # "InvalidFeature"
        ELSE pc = "failed" /\ error = "InvalidFeature"

SomeListedTargetNotZeroOne ==
    \E i \in 1..Len(target.names) :
        target.names[i] \in DOMAIN df /\ Range(df[target.names[i]]) # {0, 1}

NumClasses == Cardinality(DOMAIN pdp_isolate_out.value)

SelectorTooLarge ==
    /\ InActualPlot /\ multi_flag /\ pdp_isolate_out.is_dict
    /\ which_class # None /\ which_class[1] >= NumClasses

\* C6: in actual_plot, when multi_flag is true and which_class >= the number
\* of classes of the mapping, the call fails with InvalidClassSelector before
\* any figure is created, any title drawn or any panel rendered; when
\* multi_flag is false which_class is never compared and no failure stems
\* from it.
C6_ClassSelector ==
    /\ (SelectorTooLarge /\ Ran("check_which_class")) =>
          /\ pc = "failed" /\ error = "InvalidClassSelector"
          /\ figures = 0 /\ titles = <<>> /\ panels = <<>>
    /\ (InActualPlot /\ ~multi_flag) =>
          /\ ~compared
          /\ error \notin {"InvalidClassSelector", "TypeError", "KeyError", "AttributeError"}

C6_Witness ==
    /\ SelectorTooLarge /\ pc = "failed" /\ error = "InvalidClassSelector"
    /\ which_class[1] = NumClasses

EffectiveNcols == IF ncols = None THEN 2 ELSE ncols[1]

\* the least number of rows of EffectiveNcols cells that holds n cells
CeilRows(n) ==
    CHOOSE r \in 0..n : /\ r * EffectiveNcols >= n
                        /\ \A q \in 0..n : q * EffectiveNcols >= n => r <= q

\* C7: a successful actual_plot call on a mapping with n classes and multi_flag
\* false renders exactly n panels, for class_0 .. class_(n-1) in index order,
\* each in its own cell of a grid of ncols columns (2 when not given) and
\* ceil(n/ncols) rows, each titled with the feature name suffixed by the class
\* label; every other successful call renders exactly one panel, for the
\* single result or, with multi_flag, for the entry of which_class.
C7_Panels ==
    (InActualPlot /\ pc = "done") =>
        IF pdp_isolate_out.is_dict /\ ~multi_flag
        THEN /\ Len(panels) = NumClasses
             /\ outer = Some([nrows |-> CeilRows(NumClasses), ncols |-> EffectiveNcols])
             /\ \A k \in 0..(NumClasses - 1) :
                   /\ panels[k + 1].pdp_isolate_out = pdp_isolate_out.value[ClassKey(k)]
                   /\ panels[k + 1].feature_name = FeatureName \o " class_" \o ToString(k)
                   /\ panels[k + 1].outer = Some(k)
                   /\ k < outer[1].nrows * outer[1].ncols
        ELSE /\ Len(panels) = 1
             /\ panels[1].feature_name = FeatureName
             /\ panels[1].outer = None
             /\ panels[1].pdp_isolate_out =
                   IF multi_flag THEN pdp_isolate_out.value[ClassKey(which_class[1])]
                   ELSE pdp_isolate_out.value

C7_Witness ==
    /\ InActualPlot /\ pc = "done" /\ pdp_isolate_out.is_dict /\ ~multi_flag
    /\ ncols = None /\ Len(panels) = 3 /\ outer[1].nrows = 2

\* C8 (as amended): every successful call of target_plot returns the
\* drawing-surface handle the Renderer returned, never an empty/None result;
\* a successful call of actual_plot returns None.
C8_Returns ==
    pc = "done" =>
        /\ InTargetPlot => result # None /\ result = axes
        /\ InActualPlot => result = None

C8_Witness == InTargetPlot /\ pc = "done" /\ result # None

\* C8 (as claimed): every successful call of target_plot and of actual_plot
\* returns a handle, never None.
C8_BothReturnHandle == pc = "done" => result # None

CallBegins == pc = "idle" /\ pc' # "idle"

\* C9: no step of any call, successful or failing, changes the caller's
\* dataset: 'x' and 'fake_count' are added to the working copy only; and a
\* call begins with none of the locals or drawing effects of an earlier call.
C9_DatasetUnchanged ==
    [][/\ df' = df
       /\ CallBegins =>
             /\ feature_type' = "unset" /\ target_type' = "unset"
             /\ useful_features' = <<>> /\ data' = NoFrame
             /\ bar_data' = <<>> /\ target_lines' = <<>> /\ axes' = None
             /\ pdp_selected' = None /\ titles' = <<>> /\ panels' = <<>>
             /\ error' = "none" /\ result' = None]_vars

C9_Witness ==
    /\ InTargetPlot /\ pc = "done"
    /\ {"x", "fake_count"} \subseteq DOMAIN data
    /\ DOMAIN df \cap {"x", "fake_count"} = {}

BinIds(rows) == [i \in 1..Len(rows) |-> rows[i].x]

\* C10: what the Aggregator passes the Renderer: one target line for a binary
\* or regression target and one per listed column, in listed order, for a
\* multi-class target; bar data and every target line hold the same sequence
\* of bin ids, strictly ascending, being exactly the bin ids some row was
\* assigned to.
C10_Aggregates ==
    (InTargetPlot /\ axes # None) =>
        LET bars == axes[1].bar_data
            lines == axes[1].target_lines
            ids == BinIds(bars)
            rowsOf(k) == {r \in 1..NumRows(data) : data["x"][r] = k}
        IN  /\ Len(lines) = IF target.kind = "str" THEN 1 ELSE Len(target.names)
            /\ \A j \in 1..Len(lines) :
                  /\ BinIds(lines[j]) = ids
                  /\ \A i \in 1..Len(ids) :
                        lines[j][i].mean =
                            <<SumOver(data[target.names[j]], rowsOf(ids[i])),
                              Cardinality(rowsOf(ids[i]))>>
            /\ \A i \in 1..(Len(ids) - 1) : ids[i] < ids[i + 1]
            /\ Range(ids) = Range(data["x"])
            /\ \A i \in 1..Len(ids) : bars[i].count = Cardinality(rowsOf(ids[i]))

C10_Witness ==
    /\ InTargetPlot /\ axes # None /\ target.kind = "list"
    /\ Len(axes[1].target_lines) = 2
    /\ target.names[1] # target.names[2]
    /\ BinIds(axes[1].bar_data) = <<0, 2>>

====
